---- MODULE Spec2Model ----
(***************************************************************************)
(* Model of voronoi-places (src/main.js): the render cycle that overlays a *)
(* Voronoi diagram on a Google map.                                        *)
(*                                                                         *)
(* JavaScript is single threaded, so every event handler and every async   *)
(* continuation runs to completion: each is one action.  The suspension    *)
(* points are the nearbySearch request of getPlaces and the geocode        *)
(* request of the location form.  The map host calls onAdd and onRemove    *)
(* when the overlay's map property is set: the panes are ready by the time *)
(* a fetch resolves, so both run within the handler that calls setMap.     *)
(***************************************************************************)
EXTENDS Integers, Sequences, FiniteSets, TLC

(* ---------------------------- bounds --------------------------------- *)

\* number of render cycles (performRenderCycle calls) explored
MaxCycles == 3
\* number of location-form submissions explored
MaxGeocodes == 1
\* places the provider knows, and the longest result list it returns
NumPlaces == 1
MaxResults == 1
\* coordinates and scales of the projections and viewports the clip
\* rectangle is assembled for
MaxCoord == 2
MaxScale == 2
\* number of render cycles explored where fairness is checked
MaxLiveCycles == 2

(* ---------------------------- values --------------------------------- *)

Munich == <<48, 11>>
Berlin == <<52, 13>>
Locations == {Munich, Berlin}

Keywords == {"subway", "bakery"}

Places == 1..NumPlaces

NoText == "null"
NoResultsText == "No results. Try searching for something else"
PlacesErrorText == "Error querying Places API. This isn't normal!"
GeocodeErrorText == "Error querying Geocoding API. This isn't normal!"

\* statuses the Places service may report besides OK and ZERO_RESULTS
ErrorStatuses == {"OVER_QUERY_LIMIT", "UNKNOWN_ERROR"}

\* result lists of nearbySearch: distinct places, at most MaxResults long
RECURSIVE SeqsUpTo(_)
SeqsUpTo(n) ==
    IF n = 0 THEN {<<>>}
    ELSE LET shorter == SeqsUpTo(n - 1)
         IN  shorter \cup
             {Append(s, p) : s \in {t \in shorter : Len(t) = n - 1}, p \in Places}

Distinct(s) == \A i, j \in 1..Len(s) : i # j => s[i] # s[j]

ResultLists == {s \in SeqsUpTo(MaxResults) : Distinct(s)}

(* ---------------------------- state ---------------------------------- *)

VARIABLES
    mapCenter,          \* map.getCenter()
    mapCenterCoords,    \* the global of the same name
    placesQueryString,  \* the global of the same name
    overlay,            \* the global `overlay`: 0 for undefined/null, else an overlay id
    overlays,           \* the VoronoiOverlay objects the map or `overlay` refers to, by id
    pane,               \* ids of the overlays whose div is a child of panes.overlayLayer
    activeMarkers,      \* the global array of markers
    errorText,          \* innerText of the error banner
    requests,           \* nearbySearch requests in flight
    geocodes,           \* number of geocode requests in flight
    idleDue,            \* the idle event the host owes: "load", "center" (after setCenter) or "none"
    hits,               \* number of calls of getPlaces (its console.log('hit'))
    cycles,             \* history: one record per performRenderCycle call
    threw,              \* history: some handler ended with an uncaught TypeError
    probe,              \* a projection, a viewport and the clip rectangle assembled for them
    events,             \* history: how often each event handler (and the geocode continuation) ran
    last                \* history: the handler or continuation that ran last

vars == <<mapCenter, mapCenterCoords, placesQueryString, overlay, overlays, pane,
          activeMarkers, errorText, requests, geocodes, idleDue, hits, cycles,
          threw, probe, events, last>>

\* the part of the state that derender and render work on
Scene == [errorText |-> errorText, overlay |-> overlay, overlays |-> overlays,
          pane |-> pane, activeMarkers |-> activeMarkers, threw |-> FALSE]

(* ---------------------------- the map -------------------------------- *)

\* map.getBounds(): zoom and size are fixed, so the bounds follow the centre
getBounds(center) ==
    [sw |-> <<center[1] - 1, center[2] - 1>>, ne |-> <<center[1] + 1, center[2] + 1>>]

\* pixels per degree at the map's zoom level
PixelsPerDegree == 100

\* overlay.getProjection() of a map centred at center: the container's origin
\* is the north-west corner of the viewport
getProjection(center) ==
    [sx |-> PixelsPerDegree, sy |-> PixelsPerDegree, west |-> center[2] - 1,
     north |-> center[1] + 1, curve |-> 1]

\* d to the power of curve (1 or 3): how latitude is stretched on the way to
\* pixel y
Stretch(d, curve) == IF curve = 1 THEN d ELSE d * d * d

\* projection.fromLatLngToContainerPixel(latLng): x grows with longitude, y
\* shrinks with latitude
fromLatLngToContainerPixel(proj, latLng) ==
    [x |-> proj.sx * (latLng[2] - proj.west),
     y |-> proj.sy * Stretch(proj.north - latLng[1], proj.curve)]

\* the rectangle with the corners in geographic order: [sw.x, sw.y, ne.x, ne.y]
clipRectangleUnflipped(proj, bounds) ==
    LET swCont == fromLatLngToContainerPixel(proj, bounds.sw)
        neCont == fromLatLngToContainerPixel(proj, bounds.ne)
    IN  <<swCont.x, swCont.y, neCont.x, neCont.y>>

\* the rectangle onAdd hands to delaunay.voronoi: [swCont.x, neCont.y,
\* neCont.x, swCont.y]
clipRectangle(proj, bounds) ==
    LET swCont == fromLatLngToContainerPixel(proj, bounds.sw)
        neCont == fromLatLngToContainerPixel(proj, bounds.ne)
    IN  <<swCont.x, neCont.y, neCont.x, swCont.y>>

(* ---------------------------- overlay -------------------------------- *)

\* VoronoiOverlay.prototype.onAdd on overlay o of scene s: the diagram is
\* built from the markers that are active now, the div is kept in div_ and
\* appended to the overlayLayer pane
onAdd(s, o, center) ==
    [s EXCEPT !.overlays[o].sites = s.activeMarkers,
              !.overlays[o].clip = clipRectangle(getProjection(center),
                                                 s.overlays[o].bounds_),
              !.overlays[o].div_ = TRUE,
              !.pane = s.pane \cup {o}]

\* function VoronoiOverlay(map), as overlay o of scene s: bounds_ captured,
\* div_ null, then setMap(map), upon which the host calls onAdd
VoronoiOverlay(s, o, center) ==
    onAdd([s EXCEPT !.overlays = s.overlays @@
              (o :> [map |-> TRUE, bounds_ |-> getBounds(center), div_ |-> FALSE,
                     sites |-> <<>>, clip |-> <<>>])], o, center)

\* onRemove that removes its own div only (this.div_.remove())
onRemoveOwnDiv(s, o) ==
    IF o \in s.pane
    THEN [s EXCEPT !.pane = s.pane \ {o}, !.overlays[o].div_ = FALSE]
    ELSE [s EXCEPT !.threw = TRUE]

\* VoronoiOverlay.prototype.onRemove on overlay o of scene s: every child of
\* the div's parent is removed; a div that has no parent makes
\* `parent.firstChild` throw before anything is changed
onRemove(s, o) ==
    IF o \in s.pane
    THEN [s EXCEPT !.pane = {}, !.overlays[o].div_ = FALSE]
    ELSE [s EXCEPT !.threw = TRUE]

\* overlay.setMap(null): the map property is cleared and the host calls
\* onRemove; nothing refers to the overlay afterwards
setMapNull(s, o) ==
    LET r == onRemove([s EXCEPT !.overlays[o].map = FALSE], o)
    IN  IF r.threw THEN r
        ELSE [r EXCEPT !.overlays = [x \in (DOMAIN r.overlays) \ {o} |-> r.overlays[x]]]

(* ---------------------------- derender ------------------------------- *)

setErrorText(s, text) == [s EXCEPT !.errorText = text]

\* clearMarkers with `if` in place of `while`: only the last marker is popped
clearMarkersPopsOne(s) ==
    [s EXCEPT !.activeMarkers =
        IF s.activeMarkers = <<>> THEN <<>>
        ELSE SubSeq(s.activeMarkers, 1, Len(s.activeMarkers) - 1)]

\* clearMarkers: pops every marker and takes it off the map
clearMarkers(s) == [s EXCEPT !.activeMarkers = <<>>]

\* derender without its call of clearMarkers
derenderKeepsMarkers(s) ==
    LET s1 == setErrorText(s, NoText)
        s2 == IF s1.overlay # 0 THEN setMapNull(s1, s1.overlay) ELSE s1
    IN  IF s2.threw THEN s2
        ELSE [s2 EXCEPT !.overlay = 0]

\* derender: clear the banner, detach the overlay, clear the markers; an
\* exception out of onRemove ends it where it is
derender(s) ==
    LET s1 == setErrorText(s, NoText)
        s2 == IF s1.overlay # 0 THEN setMapNull(s1, s1.overlay) ELSE s1
    IN  IF s2.threw THEN s2
        ELSE clearMarkers([s2 EXCEPT !.overlay = 0])

(* ---------------------------- render --------------------------------- *)

\* createMarkers: one marker per place, pushed in order; c is the cycle whose
\* fetch returned the places
createMarkers(s, places, c) ==
    [s EXCEPT !.activeMarkers =
        s.activeMarkers \o [i \in 1..Len(places) |-> [cycle |-> c, place |-> places[i]]]]

\* render after `await getPlaces()`: markers, then a new overlay set on the map
\* (the second setMap(map) of line 199 changes nothing)
renderContinuation(s, places, c, center) ==
    LET s1 == createMarkers(s, places, c)
    IN  [VoronoiOverlay(s1, c, center) EXCEPT !.overlay = c]

\* getPlaces up to the nearbySearch call: the request of cycle c
getPlaces(c, center, keyword) ==
    [cycle |-> c, bounds |-> getBounds(center), keyword |-> keyword]

SetScene(s) ==
    /\ errorText' = s.errorText
    /\ overlay' = s.overlay
    /\ overlays' = s.overlays
    /\ pane' = s.pane
    /\ activeMarkers' = s.activeMarkers
    /\ threw' = (threw \/ s.threw)

\* performRenderCycle: derender(), then render() up to its await.  center and
\* keyword are the values the globals hold when it is called.
performRenderCycle(trigger, center, keyword) ==
    LET s == derender(Scene)
        c == Len(cycles) + 1
    IN  /\ SetScene(s)
        /\ IF s.threw
           THEN UNCHANGED <<requests, hits, cycles>>
           ELSE /\ requests' = requests \cup {getPlaces(c, center, keyword)}
                /\ hits' = hits + 1
                /\ cycles' = Append(cycles, [concurrent |-> requests # {},
                                             bounds |-> getBounds(center),
                                             outcome |-> "pending"])
        /\ last' = [kind |-> trigger, cycle |-> c, places |-> <<>>]

(* ---------------------------- actions -------------------------------- *)

Init ==
    /\ mapCenter = Munich
    /\ mapCenterCoords = Munich
    /\ placesQueryString = "subway"
    /\ overlay = 0
    /\ overlays = <<>>
    /\ pane = {}
    /\ activeMarkers = <<>>
    /\ errorText = NoText
    /\ requests = {}
    /\ geocodes = 0
    /\ idleDue = "load"
    /\ hits = 0
    /\ cycles = <<>>
    /\ threw = FALSE
    /\ probe = [proj |-> getProjection(Munich), bounds |-> getBounds(Munich),
                rect |-> <<>>]
    /\ events = [idle |-> 0, place |-> 0, location |-> 0, geocodeOK |-> 0]
    /\ last = [kind |-> "init", cycle |-> 0, places |-> <<>>]

\* the map's 'idle' listener; the host fires the event when the map has
\* loaded and after its centre has changed (and whenever else it settles)
Idle ==
    /\ Len(cycles) < MaxCycles
    /\ idleDue' = "none"
    /\ events' = [events EXCEPT !.idle = @ + 1]
    /\ performRenderCycle("idle", mapCenter, placesQueryString)
    /\ UNCHANGED <<mapCenter, mapCenterCoords, placesQueryString, geocodes, probe>>

\* submit listener of search-form-place
SubmitPlace(k) ==
    /\ Len(cycles) < MaxCycles
    /\ placesQueryString' = k
    /\ events' = [events EXCEPT !.place = @ + 1]
    /\ performRenderCycle("place", mapCenter, k)
    /\ UNCHANGED <<mapCenter, mapCenterCoords, geocodes, idleDue, probe>>

\* submit listener of search-form-location, up to `await geocode(...)`
SubmitLocation ==
    /\ events.location < MaxGeocodes
    /\ Len(cycles) + geocodes < MaxCycles
    /\ geocodes' = geocodes + 1
    /\ events' = [events EXCEPT !.location = @ + 1]
    /\ last' = [kind |-> "location", cycle |-> 0, places |-> <<>>]
    /\ UNCHANGED <<mapCenter, mapCenterCoords, placesQueryString, overlay, overlays,
                   pane, activeMarkers, errorText, requests, idleDue, hits, cycles,
                   threw, probe>>

\* geocode callback with status OK, and the rest of the submit listener
GeocodeOK(loc) ==
    /\ geocodes > 0
    /\ Len(cycles) < MaxCycles
    /\ geocodes' = geocodes - 1
    /\ mapCenterCoords' = loc
    /\ mapCenter' = loc
    /\ idleDue' = IF loc # mapCenter /\ idleDue # "load" THEN "center" ELSE idleDue
    /\ events' = [events EXCEPT !.geocodeOK = @ + 1]
    /\ performRenderCycle("geocodeOK", loc, placesQueryString)
    /\ UNCHANGED <<placesQueryString, probe>>

\* geocode callback that lets the submit listener go on after a failure: the
\* banner is set, and the scene is derendered for a new cycle
GeocodeFailRerenders ==
    /\ geocodes > 0
    /\ geocodes' = geocodes - 1
    /\ SetScene(setErrorText(derender(Scene), GeocodeErrorText))
    /\ last' = [kind |-> "geocodeFail", cycle |-> 0, places |-> <<>>]
    /\ UNCHANGED <<mapCenter, mapCenterCoords, placesQueryString, requests, idleDue,
                   hits, cycles, events, probe>>

\* geocode callback with any other status: the promise is never settled
GeocodeFail ==
    /\ geocodes > 0
    /\ geocodes' = geocodes - 1
    /\ SetScene(setErrorText(Scene, GeocodeErrorText))
    /\ last' = [kind |-> "geocodeFail", cycle |-> 0, places |-> <<>>]
    /\ UNCHANGED <<mapCenter, mapCenterCoords, placesQueryString, requests, idleDue,
                   hits, cycles, events, probe>>

\* nearbySearch callback of request r with status OK, and the rest of render
NearbySearchOK(r, places) ==
    /\ r \in requests
    /\ requests' = requests \ {r}
    /\ SetScene(renderContinuation(Scene, places, r.cycle, mapCenter))
    /\ cycles' = [cycles EXCEPT ![r.cycle].outcome = "OK"]
    /\ last' = [kind |-> "OK", cycle |-> r.cycle, places |-> places]
    /\ UNCHANGED <<mapCenter, mapCenterCoords, placesQueryString, geocodes, idleDue,
                   hits, events, probe>>

\* nearbySearch callback that answers a failure by calling getPlaces again
NearbySearchFailRetries(r, status) ==
    /\ r \in requests
    /\ requests' = requests
    /\ hits' = hits + 1
    /\ SetScene(setErrorText(Scene, IF status = "ZERO_RESULTS" THEN NoResultsText
                                                                ELSE PlacesErrorText))
    /\ last' = [kind |-> IF status = "ZERO_RESULTS" THEN "ZERO_RESULTS" ELSE "ERROR",
                 cycle |-> r.cycle, places |-> <<>>]
    /\ UNCHANGED <<mapCenter, mapCenterCoords, placesQueryString, geocodes, idleDue,
                   cycles, events, probe>>

\* nearbySearch callback whose last `else` branch is missing: a status other
\* than OK and ZERO_RESULTS sets no banner
NearbySearchFailSilent(r, status) ==
    /\ r \in requests
    /\ requests' = requests \ {r}
    /\ SetScene(IF status = "ZERO_RESULTS" THEN setErrorText(Scene, NoResultsText)
                                           ELSE Scene)
    /\ cycles' = [cycles EXCEPT ![r.cycle].outcome =
                        IF status = "ZERO_RESULTS" THEN "ZERO_RESULTS" ELSE "ERROR"]
    /\ last' = [kind |-> IF status = "ZERO_RESULTS" THEN "ZERO_RESULTS" ELSE "ERROR",
                 cycle |-> r.cycle, places |-> <<>>]
    /\ UNCHANGED <<mapCenter, mapCenterCoords, placesQueryString, geocodes, idleDue,
                   hits, events, probe>>

\* nearbySearch callback of request r with any other status: the promise is
\* never settled, render never continues
NearbySearchFail(r, status) ==
    /\ r \in requests
    /\ requests' = requests \ {r}
    /\ SetScene(setErrorText(Scene, IF status = "ZERO_RESULTS" THEN NoResultsText
                                                                ELSE PlacesErrorText))
    /\ cycles' = [cycles EXCEPT ![r.cycle].outcome =
                        IF status = "ZERO_RESULTS" THEN "ZERO_RESULTS" ELSE "ERROR"]
    /\ last' = [kind |-> IF status = "ZERO_RESULTS" THEN "ZERO_RESULTS" ELSE "ERROR",
                 cycle |-> r.cycle, places |-> <<>>]
    /\ UNCHANGED <<mapCenter, mapCenterCoords, placesQueryString, geocodes, idleDue,
                   hits, events, probe>>

Next ==
    \/ \E r \in requests : \E places \in ResultLists \ {<<>>} : NearbySearchOK(r, places)
    \/ \E r \in requests : NearbySearchOK(r, <<>>)
    \/ Idle
    \/ \E k \in Keywords : SubmitPlace(k)
    \/ SubmitLocation
    \/ \E loc \in Locations : GeocodeOK(loc)
    \/ GeocodeFail
    \/ \E r \in requests : \E status \in {"ZERO_RESULTS"} \cup ErrorStatuses :
            NearbySearchFail(r, status)

Spec == Init /\ [][Next]_vars

\* the Places service answers the request of cycle c
Answer(c) ==
    \E r \in requests :
        /\ r.cycle = c
        /\ \/ \E places \in ResultLists : NearbySearchOK(r, places)
           \/ \E status \in {"ZERO_RESULTS"} \cup ErrorStatuses : NearbySearchFail(r, status)

\* the handlers and callbacks of Next, up to MaxLiveCycles render cycles
NextLive ==
    \/ \E r \in requests : \E places \in ResultLists : NearbySearchOK(r, places)
    \/ Idle /\ Len(cycles) < MaxLiveCycles
    \/ \E k \in Keywords : SubmitPlace(k) /\ Len(cycles) < MaxLiveCycles
    \/ SubmitLocation /\ Len(cycles) + geocodes < MaxLiveCycles
    \/ \E loc \in Locations : GeocodeOK(loc) /\ Len(cycles) < MaxLiveCycles
    \/ GeocodeFail
    \/ \E r \in requests : \E status \in {"ZERO_RESULTS"} \cup ErrorStatuses :
            NearbySearchFail(r, status)

\* the provider eventually answers every request
LiveSpec == Init /\ [][NextLive]_vars /\ \A c \in 1..MaxLiveCycles : WF_vars(Answer(c))

(* ------------------- the clip rectangle on its own ------------------- *)

Coords == 0..MaxCoord

\* projections with pixel x growing with longitude and pixel y shrinking
\* with latitude
Projections ==
    [sx : 1..MaxScale, sy : 1..MaxScale, west : Coords, north : Coords, curve : {1, 3}]

\* viewports whose south-west corner is strictly below and left of the
\* north-east corner
Viewports ==
    {[sw |-> <<s, w>>, ne |-> <<n, e>>] : <<s, w, n, e>> \in
        {q \in Coords \X Coords \X Coords \X Coords : q[1] < q[3] /\ q[2] < q[4]}}

InitClip ==
    /\ mapCenter = Munich
    /\ mapCenterCoords = Munich
    /\ placesQueryString = "subway"
    /\ overlay = 0
    /\ overlays = <<>>
    /\ pane = {}
    /\ activeMarkers = <<>>
    /\ errorText = NoText
    /\ requests = {}
    /\ geocodes = 0
    /\ idleDue = "load"
    /\ hits = 0
    /\ cycles = <<>>
    /\ threw = FALSE
    /\ probe \in [proj : Projections, bounds : Viewports, rect : {<<>>}]
    /\ events = [idle |-> 0, place |-> 0, location |-> 0, geocodeOK |-> 0]
    /\ last = [kind |-> "init", cycle |-> 0, places |-> <<>>]

\* lines 114-116 of onAdd, for the projection and the viewport of the probe
AssembleClip ==
    /\ probe.rect = <<>>
    /\ probe' = [probe EXCEPT !.rect = clipRectangle(probe.proj, probe.bounds)]
    /\ UNCHANGED <<mapCenter, mapCenterCoords, placesQueryString, overlay, overlays,
                   pane, activeMarkers, errorText, requests, geocodes, idleDue, hits,
                   cycles, threw, events, last>>

NextClip == AssembleClip

SpecClip == InitClip /\ [][NextClip]_vars

(* ---------------------------- derived -------------------------------- *)

\* the overlays that are set on the map (setMap(map) and no setMap(null) since)
Attached == {o \in DOMAIN overlays : overlays[o].map}

\* the handlers that end in performRenderCycle
Triggers == {"idle", "place", "geocodeOK"}

\* the markers createMarkers makes of a result list of cycle c
MarkersOf(places, c) == [i \in 1..Len(places) |-> [cycle |-> c, place |-> places[i]]]

TypeOK ==
    /\ mapCenter \in Locations
    /\ mapCenterCoords \in Locations
    /\ placesQueryString \in Keywords
    /\ overlay \in 0..MaxCycles
    /\ DOMAIN overlays \subseteq 1..MaxCycles
    /\ pane \subseteq DOMAIN overlays
    /\ hits \in 0..MaxCycles
    /\ Len(cycles) <= MaxCycles
    /\ geocodes \in 0..MaxGeocodes
    /\ errorText \in {NoText, NoResultsText, PlacesErrorText, GeocodeErrorText}

(* ---------------------------- claims --------------------------------- *)

\* C1: at most one overlay is attached to the map in every reachable state.
AtMostOneOverlayAttached == Cardinality(Attached) <= 1

\* C2: when performRenderCycle has issued its fetch (the handler that ran
\* last is one that ends in performRenderCycle), activeMarkers is empty and
\* no overlay is attached to the map.
FetchBeginsClean ==
    last.kind \in Triggers => activeMarkers = <<>> /\ Attached = {}

\* C3: two idle events fired before the first fetch resolved and both fetches
\* succeeded: once the second of them has resolved, the markers are exactly
\* those of the fetch that resolved last, and so are the sites of the attached
\* overlay's diagram.
LastResolvingFetchWins ==
    (/\ Len(cycles) = 2
     /\ events.idle = 2
     /\ cycles[2].concurrent
     /\ cycles[1].outcome = "OK"
     /\ cycles[2].outcome = "OK"
     /\ last.kind = "OK")
    => /\ activeMarkers = MarkersOf(last.places, last.cycle)
       /\ \A o \in Attached : overlays[o].sites = MarkersOf(last.places, last.cycle)

\* C4: all markers in activeMarkers come from the fetch of one render cycle.
MarkersOfOneCycle ==
    \A i, j \in DOMAIN activeMarkers : activeMarkers[i].cycle = activeMarkers[j].cycle

\* C5: right after a ZERO_RESULTS answer is handled no overlay is attached,
\* activeMarkers is empty and the banner shows the "no results" text.
ZeroResultsLeavesNothing ==
    last.kind = "ZERO_RESULTS" =>
        Attached = {} /\ activeMarkers = <<>> /\ errorText = NoResultsText

\* C6: a fetch that fails with a query error shows the generic message, its
\* cycle makes no marker and attaches no overlay, and while that cycle is the
\* latest one no overlay or marker of an earlier cycle is attached.
QueryErrorLeavesNothing ==
    /\ last.kind = "ERROR" => errorText = PlacesErrorText
    /\ \A c \in DOMAIN cycles :
          cycles[c].outcome = "ERROR" =>
              /\ c \notin DOMAIN overlays
              /\ \A i \in DOMAIN activeMarkers : activeMarkers[i].cycle # c
              /\ c = Len(cycles) => Attached = {} /\ activeMarkers = <<>>

\* C7: right after an OK answer with an empty result list is handled, the
\* banner shows the "no results" text and the overlay of that cycle is not
\* attached.
EmptySuccessShowsNoResults ==
    (last.kind = "OK" /\ last.places = <<>>) =>
        errorText = NoResultsText /\ last.cycle \notin Attached

\* C8: a step that handles a failed geocode sets the geocode error banner and
\* leaves the map centre, mapCenterCoords, the overlay, the pane, the markers
\* and the fetches (issued and in flight) as they were.
GeocodeFailureChangesOnlyBanner ==
    [][(geocodes' = geocodes - 1 /\ last'.kind = "geocodeFail") =>
          /\ errorText' = GeocodeErrorText
          /\ mapCenter' = mapCenter
          /\ mapCenterCoords' = mapCenterCoords
          /\ overlay' = overlay
          /\ overlays' = overlays
          /\ pane' = pane
          /\ activeMarkers' = activeMarkers
          /\ hits' = hits
          /\ requests' = requests
          /\ cycles' = cycles]_vars

\* C8 witness: a geocode failure was handled while an overlay and markers were up
GeocodeFailedOverScene ==
    /\ last.kind = "geocodeFail"
    /\ errorText = GeocodeErrorText
    /\ overlay # 0
    /\ activeMarkers # <<>>

\* C9: from every reachable state, derender run twice leaves what derender run
\* once leaves and raises no error, and with no overlay held it leaves the
\* overlays and the pane alone.
DerenderIdempotent ==
    /\ derender(derender(Scene)) = derender(Scene)
    /\ ~derender(Scene).threw
    /\ ~threw
    /\ overlay = 0 =>
          /\ derender(Scene).overlay = 0
          /\ derender(Scene).overlays = overlays
          /\ derender(Scene).pane = pane

\* C9 witness: a state where derender has everything to do: an overlay with its
\* surface in the pane, two markers and a banner text
DerenderHasWork ==
    /\ overlay # 0
    /\ overlay \in pane
    /\ Len(activeMarkers) >= 2
    /\ errorText # NoText
    /\ derender(Scene) # Scene
    /\ derender(Scene).pane = {}

\* C10: every idle event issues exactly one fetch and starts exactly one
\* cycle; a fetch is issued only by an idle event, a place submission or the
\* continuation of a location submission; handling a fetch answer issues none.
OneFetchPerTrigger ==
    [][/\ events'.idle = events.idle + 1 =>
             /\ hits' = hits + 1
             /\ Len(cycles') = Len(cycles) + 1
             /\ \E r \in requests' : r \notin requests /\ requests' = requests \cup {r}
       /\ hits' # hits =>
             /\ hits' = hits + 1
             /\ \/ events'.idle = events.idle + 1
                \/ events'.place = events.place + 1
                \/ events'.geocodeOK = events.geocodeOK + 1 /\ events.location > 0
       /\ last'.kind \in {"OK", "ZERO_RESULTS", "ERROR"} /\ last'.cycle \in DOMAIN cycles
             /\ cycles'[last'.cycle].outcome # cycles[last'.cycle].outcome =>
             hits' = hits /\ requests' \subseteq requests]_vars

\* C10 witness: two idle events have issued two fetches, the last answer was a
\* failure, and nothing is in flight
FailedAndQuiet ==
    /\ events.idle = 2
    /\ hits = 2
    /\ last.kind = "ERROR"
    /\ requests = {}

\* C11: every attached overlay carries, as bounds_, the bounds of the
\* viewport as it is now.
AttachedBoundsAreCurrent ==
    \A o \in Attached : overlays[o].bounds_ = getBounds(mapCenter)

\* C12: the clip rectangle is [x of the west edge, y of the north edge, x of
\* the east edge, y of the south edge], and for every projection and viewport
\* of the probe, and for every attached overlay, xmin < xmax and ymin < ymax.
ClipRectangleOrdered ==
    /\ probe.rect # <<>> =>
          /\ probe.rect[1] = fromLatLngToContainerPixel(probe.proj, probe.bounds.sw).x
          /\ probe.rect[2] = fromLatLngToContainerPixel(probe.proj, probe.bounds.ne).y
          /\ probe.rect[3] = fromLatLngToContainerPixel(probe.proj, probe.bounds.ne).x
          /\ probe.rect[4] = fromLatLngToContainerPixel(probe.proj, probe.bounds.sw).y
          /\ probe.rect[1] < probe.rect[3]
          /\ probe.rect[2] < probe.rect[4]
    /\ \A o \in DOMAIN overlays :
          overlays[o].clip[1] < overlays[o].clip[3] /\ overlays[o].clip[2] < overlays[o].clip[4]

\* C12 witness: a rectangle was assembled for a stretched projection whose
\* origin lies inside the viewport, so that pixel coordinates of both signs occur
ClipAssembledAcrossOrigin ==
    /\ probe.rect # <<>>
    /\ probe.proj.curve = 3
    /\ probe.rect[1] < 0
    /\ probe.rect[3] > 0
    /\ probe.rect[2] < 0
    /\ probe.rect[4] > 0

\* C14: between handlers, activeMarkers is empty whenever no overlay is
\* attached and whenever `overlay` is null, and a handler that has just run
\* derender leaves both `overlay` null and activeMarkers empty.
MarkersOnlyWithOverlay ==
    /\ Attached = {} => activeMarkers = <<>>
    /\ overlay = 0 => activeMarkers = <<>>
    /\ last.kind \in Triggers => overlay = 0 /\ activeMarkers = <<>>

\* C14 witness: a cycle had rendered its places, and a later handler has
\* derendered: nothing is attached and no marker is left
ClearedTogether ==
    /\ last.kind \in Triggers
    /\ \E c \in DOMAIN cycles : cycles[c].outcome = "OK"
    /\ Attached = {}
    /\ activeMarkers = <<>>
    /\ requests = {[cycle |-> last.cycle, bounds |-> getBounds(mapCenter),
                    keyword |-> placesQueryString]}

\* C15: when a handler has just run derender, the overlayLayer pane holds no
\* overlay div, whether of the overlay `overlay` referred to or of another.
PaneEmptyAfterDerender ==
    last.kind \in Triggers => pane = {}

\* C15 witness: derender has just run while an overlay that `overlay` did not
\* refer to is still set on the map; its div is gone from the pane all the same
SweptUnreferencedSurface ==
    /\ last.kind \in Triggers
    /\ Attached # {}
    /\ \A o \in Attached : overlays[o].div_
    /\ overlay = 0
    /\ pane = {}

\* C16: for every attached overlay, the bounds its constructor captured equal
\* the bounds that were sent in the request whose places it shows.
OverlayBoundsAreFetchBounds ==
    \A o \in Attached : overlays[o].bounds_ = cycles[o].bounds

\* C17: the continuation of a location submission issues one fetch, and the
\* idle event that the host raises for the change of centre starts no further
\* cycle and issues no further fetch.
OneCyclePerLocationSearch ==
    [][/\ events'.geocodeOK = events.geocodeOK + 1 =>
             hits' = hits + 1 /\ Len(cycles') = Len(cycles) + 1
       /\ (idleDue = "center" /\ events'.idle = events.idle + 1) =>
             hits' = hits /\ cycles' = cycles]_vars

\* the request of cycle c is in flight
Pending(c) == \E r \in requests : r.cycle = c

\* the answer of cycle c has just been handled: its markers are the last ones
\* in activeMarkers and its overlay is attached, or the banner shows the
\* message of its failure
Outcome(c) ==
    /\ last.cycle = c
    /\ \/ /\ last.kind = "OK"
          /\ overlay = c
          /\ c \in Attached
          /\ Len(activeMarkers) >= Len(last.places)
          /\ SubSeq(activeMarkers, Len(activeMarkers) - Len(last.places) + 1,
                    Len(activeMarkers)) = MarkersOf(last.places, c)
       \/ last.kind = "ZERO_RESULTS" /\ errorText = NoResultsText
       \/ last.kind = "ERROR" /\ errorText = PlacesErrorText

\* C18: when the provider answers every request, every cycle whose request is
\* in flight reaches its outcome: markers and an attached overlay, or an error
\* message.
EveryCycleReachesOutcome ==
    \A c \in 1..MaxLiveCycles : Pending(c) ~> Outcome(c)

\* C18 witness: a cycle that was started while another fetch was in flight has
\* reached its outcome with a query error, and nothing is in flight
OverlappedCycleFailed ==
    \E c \in DOMAIN cycles :
        /\ cycles[c].concurrent
        /\ Outcome(c)
        /\ last.kind = "ERROR"
        /\ requests = {}

====
